---- MODULE Spec2Model ----
(***************************************************************************)
(* The frame loop of aivirtualmouseproject.py: the pause toggle, the       *)
(* pointer mapper, the click / right-click / swipe / scroll classifier and *)
(* the commands it hands to the OS input backend.                          *)
(*                                                                         *)
(* Time is counted in hundredths of a second (0.12 s = 12).  Coordinates   *)
(* that the program keeps as floats (plocX, plocY, the move target) are    *)
(* exact rationals <<numerator, denominator>>.                             *)
(***************************************************************************)
EXTENDS Integers, Sequences, FiniteSets, TLC

\* ------------------------------------------------------------------------
\* Configuration constants (lines 30-40), times in 1/100 s
\* ------------------------------------------------------------------------
wCam == 480
hCam == 360
frameR == 100
smoothening == 3
click_debounce_sec == 12
left_click_threshold == 35
double_click_threshold == 60
right_click_threshold == 30
swipe_threshold_px == 120
scroll_threshold_px == 80
cooldown_swipe_sec == 70
scroll_cooldown_sec == 20
rest_toggle_hold_sec == 35
scroll_amount == 60
trail_maxlen == 5
\* autopy.screen.size() of the machine the model is run for
wScr == 1920
hScr == 1080

\* ------------------------------------------------------------------------
\* Bounds of the model
\* ------------------------------------------------------------------------
\* time.time() when the loop starts, far from the initial timers (0.0)
Epoch == 100
MaxPauseFrames == 4
MaxClickFrames == 2
MaxClickTimingFrames == 3
MaxSwipeTimingFrames == 4
MaxScrollTimingFrames == 4
MaxSwipeFrames == 3
MaxTrailFrames == 7
MaxFaultFrames == 3
MaxPointerFrames == 3
MaxPinchFrames == 3
MaxOrderFrames == 2
MaxTimerFrames == 3
MaxMotionFrames == 3
MaxScrollFrames == 3
MaxClickPairFrames == 2

\* rest_since: <<>> is None, <<t>> is the time t
None == <<>>

\* ------------------------------------------------------------------------
\* Exact arithmetic on <<n, d>>, d > 0
\* ------------------------------------------------------------------------
RECURSIVE Gcd(_, _)
Gcd(a, b) == IF b = 0 THEN a ELSE Gcd(b, a % b)

Abs(a) == IF a < 0 THEN -a ELSE a

Rat(n, d) ==
    LET g == Gcd(Abs(n), d) IN IF g = 0 THEN <<0, 1>> ELSE <<n \div g, d \div g>>

FromInt(n) == <<n, 1>>
\* the common denominator, kept as small as it can be
Lcm(a, b) == (a \div Gcd(a, b)) * b

RAdd(p, q) ==
    LET L == Lcm(p[2], q[2])
    IN  Rat(p[1] * (L \div p[2]) + q[1] * (L \div q[2]), L)
RSub(p, q) ==
    LET L == Lcm(p[2], q[2])
    IN  Rat(p[1] * (L \div p[2]) - q[1] * (L \div q[2]), L)
RDivInt(p, k) == Rat(p[1], p[2] * k)
RLe(p, q) ==
    LET L == Lcm(p[2], q[2])
    IN  p[1] * (L \div p[2]) <= q[1] * (L \div q[2])
RMin(p, q) == IF RLe(p, q) THEN p ELSE q
RMax(p, q) == IF RLe(p, q) THEN q ELSE p

\* np.interp(v, (lo, hi), (0, out)): linear inside, clamped to the ends outside
Interp(v, lo, hi, out) ==
    IF v <= lo THEN FromInt(0)
    ELSE IF v >= hi THEN FromInt(out)
    ELSE Rat((v - lo) * out, hi - lo)

\* ------------------------------------------------------------------------
\* Finger vectors (detector.fingersUp(): thumb, index, middle, ring, pinky)
\* ------------------------------------------------------------------------
Fist == <<0, 0, 0, 0, 0>>
IndexOnly == <<0, 1, 0, 0, 0>>
PinkyOnly == <<0, 0, 0, 0, 1>>
IndexMiddle == <<0, 1, 1, 0, 0>>
ThumbIndex == <<1, 1, 0, 0, 0>>
ThumbIndexMiddle == <<1, 1, 1, 0, 0>>
AllFive == <<1, 1, 1, 1, 1>>

SumFingers(f) == f[1] + f[2] + f[3] + f[4] + f[5]

VARIABLES
    pc,                \* "loop" | "done" (break at 93 / 194) | "crashed"
    clock,             \* the last value time.time() returned
    paused,
    rest_since,
    last_click_time,
    last_action_time,
    trail,             \* deque(maxlen=5) of <<x1, y1, t>>
    plocX, plocY,
    cmds,              \* the backend calls of the last frame, in call order
    inp,               \* what the last frame read: detector output and clock
    frames,            \* frames read so far
    runFlips,          \* flips of paused in the current run of fist frames
    fistOnly,          \* every frame since rest_since was set was a fist frame
    flipped,           \* the last frame executed line 113
    pushed,            \* every sample ever appended to trail, in order
    disp,              \* <<dx, dy>> of lines 158-159 in the last frame, or None
    fired,             \* per category, when its last backend call was made
    env                \* the session (see Profile)

vars == <<pc, clock, paused, rest_since, last_click_time, last_action_time,
          trail, plocX, plocY, cmds, inp, frames, runFlips, fistOnly, flipped,
          pushed, disp, fired, env>>

NoInput ==
    [hand |-> FALSE, fingers |-> Fist, x1 |-> 0, y1 |-> 0, length |-> 0,
     lengthTI |-> 0, tRest |-> 0, tClick |-> 0, tRight |-> 0, tDyn |-> 0,
     rej |-> {}]

\* the globals of lines 43-47 when the loop is entered
InitIn(Sessions) ==
    /\ env \in Sessions
    /\ pc = "loop"
    /\ clock = Epoch
    /\ paused = FALSE
    /\ rest_since = None
    /\ last_click_time = 0
    /\ last_action_time = 0
    /\ trail = <<>>
    /\ plocX = FromInt(0)
    /\ plocY = FromInt(0)
    /\ cmds = <<>>
    /\ inp = NoInput
    /\ frames = 0
    /\ runFlips = 0
    /\ fistOnly = TRUE
    /\ flipped = FALSE
    /\ pushed = <<>>
    /\ disp = None
    /\ fired = [click |-> None, swipe |-> None, scroll |-> None]

\* ------------------------------------------------------------------------
\* One frame, block by block.  s is the session state while the frame runs:
\* the globals of line 66, the calls made so far (cmds) and alive, FALSE
\* once an exception has left main.  i is what the frame reads.
\* ------------------------------------------------------------------------
Session ==
    [paused |-> paused, rest_since |-> rest_since,
     last_click_time |-> last_click_time, last_action_time |-> last_action_time,
     trail |-> trail, plocX |-> plocX, plocY |-> plocY,
     cmds |-> <<>>, alive |-> TRUE, pushed |-> pushed, disp |-> None]

Cmd(op, arg, at, ok) == [op |-> op, arg |-> arg, at |-> at, ok |-> ok]

\* a pyautogui call: nothing catches what it raises
PyCall(s, op, arg, at, i) ==
    [s EXCEPT !.cmds = Append(@, Cmd(op, arg, at, op \notin i.rej)),
              !.alive = op \notin i.rej]

\* the move handed on as it comes, without the clamp of lines 58-59
safe_move_mouse_unclamped(s, x, y, i) ==
    [s EXCEPT !.cmds = Append(@, Cmd("move", <<x, y>>, i.tRest,
                                     "move" \notin i.rej))]

\* lines 57-63: clamp, call autopy, swallow what it raises
safe_move_mouse(s, x, y, i) ==
    LET cx == RMax(FromInt(0), RMin(FromInt(wScr - 1), x))
        cy == RMax(FromInt(0), RMin(FromInt(hScr - 1), y))
    IN  [s EXCEPT !.cmds = Append(@, Cmd("move", <<cx, cy>>, i.tRest,
                                         "move" \notin i.rej))]

IsFist(f) == f = Fist

\* the hold test with the threshold one tick short
FistHeld_short(now, since) == now - since >= rest_toggle_hold_sec - 1

FistHeld(now, since) == now - since >= rest_toggle_hold_sec

\* lines 110-117
PauseToggle(s, i) ==
    IF IsFist(i.fingers)
    THEN IF s.rest_since = None
         THEN [s EXCEPT !.rest_since = <<i.tRest>>]
         ELSE IF FistHeld(i.tRest, s.rest_since[1])
              THEN [s EXCEPT !.paused = ~@, !.rest_since = None]
              ELSE s
    ELSE [s EXCEPT !.rest_since = None]

\* the move gesture taken for any vector with the index up
IsMoveGesture_indexUp(f) == f[2] = 1

\* line 124
IsMoveGesture(f) == f[2] = 1 /\ SumFingers(f) = 1

\* the smoothing step multiplied by smoothening where line 128 divides
CursorMove_multiplied(s, i) ==
    IF IsMoveGesture(i.fingers)
    THEN LET x3 == Interp(i.x1, frameR, wCam - frameR, wScr)
             y3 == Interp(i.y1, frameR, hCam - frameR, hScr)
             stepX == RSub(x3, s.plocX)
             stepY == RSub(y3, s.plocY)
             clocX == RAdd(s.plocX, <<stepX[1] * smoothening, stepX[2]>>)
             clocY == RAdd(s.plocY, <<stepY[1] * smoothening, stepY[2]>>)
             s1 == safe_move_mouse(s, RSub(FromInt(wScr), clocX), clocY, i)
         IN  [s1 EXCEPT !.plocX = clocX, !.plocY = clocY]
    ELSE s

\* lines 124-131
CursorMove(s, i) ==
    IF IsMoveGesture(i.fingers)
    THEN LET x3 == Interp(i.x1, frameR, wCam - frameR, wScr)
             y3 == Interp(i.y1, frameR, hCam - frameR, hScr)
             clocX == RAdd(s.plocX, RDivInt(RSub(x3, s.plocX), smoothening))
             clocY == RAdd(s.plocY, RDivInt(RSub(y3, s.plocY), smoothening))
             s1 == safe_move_mouse(s, RSub(FromInt(wScr), clocX), clocY, i)
         IN  [s1 EXCEPT !.plocX = clocX, !.plocY = clocY]
    ELSE s

\* no debounce at all
Debounced_never(now, last, minInterval) == TRUE

\* the debounce test with the boundary let through
Debounced_inclusive(now, last, minInterval) == now - last >= minInterval

\* the debounce test of lines 137, 141, 150, 163, 174
Debounced(now, last, minInterval) == now - last > minInterval

\* the distance tests of lines 137 and 141
IsLeftClick(length) == length < left_click_threshold

\* the V-shape test against the wrong threshold
IsDoubleClick_overlap(length) == length > left_click_threshold

IsDoubleClick(length) == length > double_click_threshold

\* lines 134-144
LeftClick(s, i) ==
    IF s.alive /\ i.fingers[2] = 1 /\ i.fingers[3] = 1
    THEN LET now == i.tClick IN
         IF /\ IsLeftClick(i.length)
            /\ Debounced(now, s.last_click_time, click_debounce_sec)
         THEN LET s1 == PyCall(s, "click", "left", now, i)
              IN  IF s1.alive THEN [s1 EXCEPT !.last_click_time = now] ELSE s1
         ELSE IF /\ IsDoubleClick(i.length)
                 /\ Debounced(now, s.last_click_time, click_debounce_sec)
              THEN LET s1 == PyCall(s, "doubleClick", "left", now, i)
                   IN  IF s1.alive THEN [s1 EXCEPT !.last_click_time = now]
                       ELSE s1
              ELSE s
    ELSE s

\* lines 147-153
RightClick(s, i) ==
    IF s.alive /\ i.fingers[1] = 1 /\ i.fingers[2] = 1
    THEN LET now == i.tRight IN
         IF /\ i.lengthTI < right_click_threshold
            /\ Debounced(now, s.last_click_time, click_debounce_sec)
         THEN LET s1 == PyCall(s, "rightClick", "right", now, i)
              IN  IF s1.alive THEN [s1 EXCEPT !.last_click_time = now] ELSE s1
         ELSE s
    ELSE s

\* a list that is never trimmed
TrailAppend_unbounded(tr, e) == Append(tr, e)

\* deque(maxlen=5).append
TrailAppend(tr, e) ==
    IF Len(tr) = trail_maxlen THEN Append(Tail(tr), e) ELSE Append(tr, e)

\* lines 158-159
TrailDx(tr) == tr[Len(tr)][1] - tr[1][1]
TrailDy(tr) == tr[Len(tr)][2] - tr[1][2]

\* the left swipe with the threshold itself left out
IsSwipeLeft_strict(dx, dy) ==
    dx < -swipe_threshold_px /\ 2 * Abs(dy) < swipe_threshold_px

IsSwipeLeft(dx, dy) ==
    dx <= -swipe_threshold_px /\ 2 * Abs(dy) < swipe_threshold_px
IsSwipeRight(dx, dy) ==
    dx >= swipe_threshold_px /\ 2 * Abs(dy) < swipe_threshold_px

\* lines 163-171
Swipe(s, i, dx, dy, now) ==
    IF /\ s.alive
       /\ i.fingers = AllFive
       /\ Debounced(now, s.last_action_time, cooldown_swipe_sec)
    THEN IF IsSwipeLeft(dx, dy)
         THEN LET s1 == PyCall(s, "hotkey", <<"ctrl", "a">>, now, i)
              IN  IF s1.alive THEN [s1 EXCEPT !.last_action_time = now] ELSE s1
         ELSE IF IsSwipeRight(dx, dy)
              THEN LET s1 == PyCall(s, "hotkey", <<"ctrl", "c">>, now, i)
                   IN  IF s1.alive THEN [s1 EXCEPT !.last_action_time = now]
                       ELSE s1
              ELSE s
    ELSE s

\* the scroll vectors without the second finger next to the index
IsScrollGesture_indexAlone(f) ==
    f = AllFive \/ (f[2] = 1 /\ SumFingers(f) <= 1)

\* the vector test of line 174
IsScrollGesture(f) ==
    f = AllFive \/ (f[2] = 1 /\ SumFingers(f) <= 2)

\* lines 174-182
Scroll(s, i, dy, now) ==
    IF /\ s.alive
       /\ IsScrollGesture(i.fingers)
       /\ Debounced(now, s.last_action_time, scroll_cooldown_sec)
    THEN IF dy <= -scroll_threshold_px
         THEN LET s1 == PyCall(s, "scroll", scroll_amount, now, i)
              IN  IF s1.alive THEN [s1 EXCEPT !.last_action_time = now] ELSE s1
         ELSE IF dy >= scroll_threshold_px
              THEN LET s1 == PyCall(s, "scroll", -scroll_amount, now, i)
                   IN  IF s1.alive THEN [s1 EXCEPT !.last_action_time = now]
                       ELSE s1
              ELSE s
    ELSE s

\* lines 156-182
DynamicGestures(s, i) ==
    IF s.alive
    THEN LET s1 == [s EXCEPT !.trail = TrailAppend(@, <<i.x1, i.y1, i.tDyn>>),
                              !.pushed = Append(@, <<i.x1, i.y1, i.tDyn>>)]
         IN  IF Len(s1.trail) >= 2
             THEN LET dx == TrailDx(s1.trail)
                      dy == TrailDy(s1.trail)
                      now == i.tDyn
                      s2 == [s1 EXCEPT !.disp = <<dx, dy>>]
                  IN  Scroll(Swipe(s2, i, dx, dy, now), i, dy, now)
             ELSE s1
    ELSE s

\* the classifier run whatever the pause state
Active_always(s) == TRUE

\* line 122
Active(s) == ~s.paused

\* the frame with the trail gestures classified before the clicks
ProcessHand_gesturesFirst(s, i) ==
    LET s1 == PauseToggle(s, i)
    IN  IF Active(s1)
        THEN RightClick(LeftClick(DynamicGestures(CursorMove(s1, i), i), i), i)
        ELSE s1

\* lines 103-182, the frame of a detected hand
ProcessHand(s, i) ==
    LET s1 == PauseToggle(s, i)
    IN  IF Active(s1)
        THEN DynamicGestures(RightClick(LeftClick(CursorMove(s1, i), i), i), i)
        ELSE s1

ClickOps == {"click", "doubleClick", "rightClick"}

\* the calls of cs whose op is in ops, as indices
Calls(cs, ops) == {k \in 1..Len(cs) : cs[k].op \in ops}

Max(S) == CHOOSE m \in S : \A k \in S : k <= m

\* when the last call of cs with op in ops was made, prev if there is none
LastAt(cs, ops, prev) ==
    IF Calls(cs, ops) = {} THEN prev ELSE <<cs[Max(Calls(cs, ops))].at>>

\* ------------------------------------------------------------------------
\* The loop (lines 91-194)
\* ------------------------------------------------------------------------
Frame(i) ==
    /\ pc = "loop"
    /\ \E s \in {ProcessHand(Session, i)} :
        /\ pc' = IF s.alive THEN "loop" ELSE "crashed"
        /\ paused' = s.paused
        /\ rest_since' = s.rest_since
        /\ last_click_time' = s.last_click_time
        /\ last_action_time' = s.last_action_time
        /\ trail' = s.trail
        /\ plocX' = s.plocX
        /\ plocY' = s.plocY
        /\ cmds' = s.cmds
        /\ flipped' = (s.paused # paused)
        /\ runFlips' = IF IsFist(i.fingers)
                       THEN runFlips + (IF s.paused # paused THEN 1 ELSE 0)
                       ELSE 0
        /\ pushed' = s.pushed
        /\ disp' = s.disp
        /\ fired' = [click |-> LastAt(s.cmds, ClickOps, fired.click),
                     swipe |-> LastAt(s.cmds, {"hotkey"}, fired.swipe),
                     scroll |-> LastAt(s.cmds, {"scroll"}, fired.scroll)]
    /\ fistOnly' = IF rest_since = None THEN TRUE
                   ELSE fistOnly /\ IsFist(i.fingers)
    /\ clock' = i.tDyn
    /\ inp' = i
    /\ frames' = frames + 1
    /\ env' = env

\* the frame without a hand run through the toggle and the classifier as
\* if the detector had reported a fist at the origin
NoHand_asFist(dt) ==
    Frame([NoInput EXCEPT !.tRest = clock + dt, !.tClick = clock + dt,
                          !.tRight = clock + dt, !.tDyn = clock + dt])

\* line 103 false: nothing between 103 and 183 runs
NoHand(dt) ==
    /\ pc = "loop"
    /\ clock' = clock + dt
    /\ cmds' = <<>>
    /\ inp' = [NoInput EXCEPT !.tRest = clock + dt, !.tClick = clock + dt,
                              !.tRight = clock + dt, !.tDyn = clock + dt]
    /\ frames' = frames + 1
    /\ flipped' = FALSE
    /\ disp' = None
    /\ runFlips' = 0
    /\ fistOnly' = IF rest_since = None THEN TRUE ELSE FALSE
    /\ UNCHANGED <<pc, paused, rest_since, last_click_time, last_action_time,
                   trail, plocX, plocY, pushed, fired, env>>

\* cap.read() fails (line 93) or ESC / q (line 194)
Quit ==
    /\ pc = "loop"
    /\ pc' = "done"
    /\ UNCHANGED <<clock, paused, rest_since, last_click_time,
                   last_action_time, trail, plocX, plocY, cmds, inp, frames,
                   runFlips, fistOnly, flipped, pushed, disp, fired, env>>

\* ------------------------------------------------------------------------
\* What a frame reads.  A value the frame does not read (length when index
\* and middle are not both up, lengthTI when thumb and index are not) is 0.
\* ------------------------------------------------------------------------
MkInput(f, x, y, len, lenTI, dt, e1, e2, e3, rej) ==
    [hand |-> TRUE, fingers |-> f, x1 |-> x, y1 |-> y,
     length |-> len, lengthTI |-> lenTI,
     tRest |-> clock + dt, tClick |-> clock + dt + e1,
     tRight |-> clock + dt + e1 + e2, tDyn |-> clock + dt + e1 + e2 + e3,
     rej |-> rej]

ReadsLength(f) == f[2] = 1 /\ f[3] = 1
ReadsLengthTI(f) == f[1] = 1 /\ f[2] = 1

\* ------------------------------------------------------------------------
\* Sessions.  A session fixes what the detector, the clock and the backend
\* can do: finger vectors, index tip positions, distances, clock steps
\* between frames (dts) and between lines 136 and 149 (e2s), and the sets of
\* calls the backend rejects.  Each is chosen around the thresholds it
\* exercises; env names the session.
\* ------------------------------------------------------------------------
Kinds == {"move", "click", "doubleClick", "rightClick", "hotkey", "scroll"}

\* fist holds around 0.35 s, among frames that would move, click and scroll
PauseProfile ==
    [max |-> MaxPauseFrames, noHand |-> TRUE,
     fingers |-> {Fist, IndexOnly, AllFive},
     pts |-> {<<200, 100>>, <<200, 180>>},
     lengths |-> {20}, lengthTIs |-> {40},
     dts |-> {34, 35}, e2s |-> {0}, rejs |-> {{}}]

\* every vector with index and middle up, index-middle distances around 35
\* and 60, thumb-index around 30
ClickProfile ==
    [max |-> MaxClickFrames, noHand |-> TRUE,
     fingers |-> {<<a, 1, 1, b, c>> : a, b, c \in {0, 1}},
     pts |-> {<<200, 200>>},
     lengths |-> {34, 35, 36, 59, 60, 61}, lengthTIs |-> {29, 30},
     dts |-> {12, 13}, e2s |-> {0, 13}, rejs |-> {{}}]

\* pinches 0.06, 0.12 and 0.13 s apart, with and without the backend
\* refusing
ClickTimingProfile ==
    [max |-> MaxClickTimingFrames, noHand |-> TRUE,
     fingers |-> {IndexMiddle, ThumbIndexMiddle},
     pts |-> {<<200, 200>>},
     lengths |-> {34, 61}, lengthTIs |-> {29},
     dts |-> {6, 12, 13}, e2s |-> {0, 13}, rejs |-> {{}, Kinds}]

\* an open palm going left and right, frames 0.35, 0.7 and 0.71 s apart
SwipeTimingProfile ==
    [max |-> MaxSwipeTimingFrames, noHand |-> TRUE,
     fingers |-> {AllFive},
     pts |-> {<<220, 100>>, <<100, 100>>},
     lengths |-> {47}, lengthTIs |-> {30},
     dts |-> {35, 70, 71}, e2s |-> {0}, rejs |-> {{}, Kinds}]

\* the index going up and down, frames 0.1, 0.2 and 0.21 s apart
ScrollTimingProfile ==
    [max |-> MaxScrollTimingFrames, noHand |-> TRUE,
     fingers |-> {IndexOnly},
     pts |-> {<<100, 100>>, <<100, 180>>},
     lengths |-> {47}, lengthTIs |-> {30},
     dts |-> {10, 20, 21}, e2s |-> {0}, rejs |-> {{}, Kinds}]

\* an open palm around dx = -120 and |dy| = 60, sometimes pinching a click
\* that the backend may refuse
SwipeProfile ==
    [max |-> MaxSwipeFrames, noHand |-> TRUE,
     fingers |-> {AllFive},
     pts |-> {<<220, 100>>, <<100, 100>>, <<101, 100>>, <<100, 159>>,
              <<100, 160>>},
     lengths |-> {34, 47}, lengthTIs |-> {30},
     dts |-> {35, 71}, e2s |-> {0}, rejs |-> {{}, {"click"}}]

\* more than five samples, with fists that pause and frames without a hand
TrailProfile ==
    [max |-> MaxTrailFrames, noHand |-> TRUE,
     fingers |-> {Fist, AllFive},
     pts |-> {<<220, 100>>, <<100, 100>>},
     lengths |-> {47}, lengthTIs |-> {30},
     dts |-> {35}, e2s |-> {0}, rejs |-> {{}}]

\* a backend that refuses the move, everything but the move, or nothing
FaultProfile ==
    [max |-> MaxFaultFrames, noHand |-> TRUE,
     fingers |-> {IndexOnly, IndexMiddle, AllFive},
     pts |-> {<<100, 100>>, <<100, 180>>},
     lengths |-> {34}, lengthTIs |-> {29},
     dts |-> {13, 71}, e2s |-> {0},
     rejs |-> {{}, {"move"}, Kinds \ {"move"}}]

\* the index tip inside, on the edge of and outside the active rectangle,
\* with fists that pause and a backend that may refuse the move
PointerProfile ==
    [max |-> MaxPointerFrames, noHand |-> TRUE,
     fingers |-> {IndexOnly, IndexMiddle, Fist},
     pts |-> {<<50, 310>>, <<100, 100>>, <<240, 180>>, <<380, 260>>,
              <<430, 50>>},
     lengths |-> {47}, lengthTIs |-> {30},
     dts |-> {35}, e2s |-> {0}, rejs |-> {{}, {"move"}}]

\* index and middle pinched or apart, frames 0.05, 0.12 and 0.13 s apart
PinchProfile ==
    [max |-> MaxPinchFrames, noHand |-> TRUE,
     fingers |-> {IndexMiddle},
     pts |-> {<<200, 200>>},
     lengths |-> {11, 34, 35}, lengthTIs |-> {30},
     dts |-> {5, 12, 13}, e2s |-> {0}, rejs |-> {{}}]

\* vectors that qualify for several events in one frame, moving along and
\* across, frames 0.13 and 0.71 s apart, the clock standing still or going
\* on 0.13 s between the two click tests, the backend refusing or not
OrderProfile ==
    [max |-> MaxOrderFrames, noHand |-> TRUE,
     fingers |-> {IndexOnly, ThumbIndexMiddle, AllFive},
     pts |-> {<<220, 100>>, <<100, 100>>, <<100, 180>>},
     lengths |-> {34, 61}, lengthTIs |-> {29},
     dts |-> {13, 71}, e2s |-> {0, 13}, rejs |-> {{}, Kinds}]

\* an open palm that pinches, swipes and scrolls while the wall clock
\* (time.time()) goes on 0.13 or 0.71 s or is set back 0.5 s between frames
TimerProfile ==
    [max |-> MaxTimerFrames, noHand |-> TRUE,
     fingers |-> {AllFive},
     pts |-> {<<220, 100>>, <<100, 100>>, <<100, 180>>},
     lengths |-> {34}, lengthTIs |-> {29},
     dts |-> {-50, 13, 71}, e2s |-> {0, 13},
     rejs |-> {{}, Kinds \ {"move"}}]

\* the index tip on its k-th frame of a straight glide from (150, 150) to
\* (160, 155) in ten frames, as whole pixels: cut off or rounded up
GlidePoints(k) ==
    {<<150 + (10 * (k - 1)) \div 9, 150 + (5 * (k - 1)) \div 9>>,
     <<150 + (10 * (k - 1) + 8) \div 9, 150 + (5 * (k - 1) + 8) \div 9>>}

\* ten frames at 30 frames a second with the index alone up, gliding; the
\* hand may be lost for a frame and the backend may refuse the move
GlideProfile ==
    [max |-> 10, noHand |-> TRUE,
     fingers |-> {IndexOnly},
     path |-> [k \in 1..10 |-> GlidePoints(k)],
     lengths |-> {0}, lengthTIs |-> {0},
     dts |-> {3}, e2s |-> {0}, rejs |-> {{}, {"move"}}]

\* an open palm or the index alone going left and down, frames 0.2, 0.21,
\* 0.7 and 0.71 s apart
MotionProfile ==
    [max |-> MaxMotionFrames, noHand |-> TRUE,
     fingers |-> {AllFive, IndexOnly},
     pts |-> {<<220, 100>>, <<100, 100>>, <<100, 180>>},
     lengths |-> {47}, lengthTIs |-> {30},
     dts |-> {20, 21, 70, 71}, e2s |-> {0}, rejs |-> {{}}]

\* vectors with none to five fingers up, with and without the index, the
\* tip going up and down around the scroll threshold, frames 0.2 and 0.21 s
\* apart, sometimes pinching a click, which the backend refuses
ScrollProfile ==
    [max |-> MaxScrollFrames, noHand |-> TRUE,
     fingers |-> {Fist, IndexOnly, <<0, 0, 1, 0, 0>>, IndexMiddle, ThumbIndex,
                  <<1, 0, 1, 0, 0>>, ThumbIndexMiddle, <<1, 1, 1, 1, 0>>,
                  AllFive},
     pts |-> {<<100, 100>>, <<100, 179>>, <<100, 180>>},
     lengths |-> {34, 47}, lengthTIs |-> {30},
     dts |-> {20, 21}, e2s |-> {0}, rejs |-> {{"click"}}]

\* thumb, index and middle up in turn, pinched or not, frames 0.12 and
\* 0.13 s apart, the clock going on 0, 0.12 or 0.13 s between the time
\* readings of lines 136 and 149 (pyautogui sleeps after each call)
ClickPairProfile ==
    [max |-> MaxClickPairFrames, noHand |-> TRUE,
     fingers |-> {ThumbIndex, ThumbIndexMiddle, IndexMiddle,
                  <<1, 0, 1, 0, 0>>},
     pts |-> {<<200, 200>>},
     lengths |-> {34, 47, 61}, lengthTIs |-> {29, 30},
     dts |-> {12, 13}, e2s |-> {0, 12, 13}, rejs |-> {{}, {"click"}}]

Profile(name) ==
    CASE name = "pause" -> PauseProfile
      [] name = "clickPair" -> ClickPairProfile
      [] name = "scroll" -> ScrollProfile
      [] name = "motion" -> MotionProfile
      [] name = "glide" -> GlideProfile
      [] name = "timer" -> TimerProfile
      [] name = "order" -> OrderProfile
      [] name = "pinch" -> PinchProfile
      [] name = "pointer" -> PointerProfile
      [] name = "click" -> ClickProfile
      [] name = "clickTiming" -> ClickTimingProfile
      [] name = "swipeTiming" -> SwipeTimingProfile
      [] name = "scrollTiming" -> ScrollTimingProfile
      [] name = "swipe" -> SwipeProfile
      [] name = "trail" -> TrailProfile
      [] name = "fault" -> FaultProfile

\* where the session lets the index tip be in the next frame with a hand
PointsAt(P) ==
    IF "path" \in DOMAIN P THEN P.path[Len(pushed) + 1] ELSE P.pts

\* the frame of a detected hand, read from what the session offers
HandFrame ==
    LET P == Profile(env) IN
    /\ frames < P.max
    /\ \E f \in P.fingers, pt \in PointsAt(P), dt \in P.dts, rej \in P.rejs :
       \E len \in (IF ReadsLength(f) THEN P.lengths ELSE {0}),
          lenTI \in (IF ReadsLengthTI(f) THEN P.lengthTIs ELSE {0}),
          e2 \in (IF ReadsLength(f) /\ ReadsLengthTI(f) THEN P.e2s ELSE {0}) :
          Frame(MkInput(f, pt[1], pt[2], len, lenTI, dt, 0, e2, 0, rej))

NoHandFrame ==
    LET P == Profile(env) IN
    /\ frames < P.max
    /\ P.noHand
    /\ \E dt \in P.dts : NoHand(dt)

Next == HandFrame \/ NoHandFrame \/ Quit

SpecPause == InitIn({"pause"}) /\ [][Next]_vars
SpecClick == InitIn({"click"}) /\ [][Next]_vars
SpecDebounce ==
    InitIn({"clickTiming", "swipeTiming", "scrollTiming"}) /\ [][Next]_vars
SpecSwipe == InitIn({"swipe"}) /\ [][Next]_vars
SpecTrail == InitIn({"trail"}) /\ [][Next]_vars
SpecFault == InitIn({"fault"}) /\ [][Next]_vars
SpecPointer == InitIn({"pointer"}) /\ [][Next]_vars
SpecPinch == InitIn({"pinch"}) /\ [][Next]_vars
SpecOrder == InitIn({"order"}) /\ [][Next]_vars
SpecTimer == InitIn({"timer"}) /\ [][Next]_vars
SpecMotion == InitIn({"motion"}) /\ [][Next]_vars
SpecScroll == InitIn({"scroll", "motion"}) /\ [][Next]_vars
SpecClickPair == InitIn({"clickPair"}) /\ [][Next]_vars
SpecGlide == InitIn({"glide"}) /\ [][Next]_vars
SpecNoHand == InitIn({"pointer", "timer"}) /\ [][Next]_vars

\* ------------------------------------------------------------------------
\* Pause / resume
\* ------------------------------------------------------------------------
FistFrame == inp.hand /\ IsFist(inp.fingers)

\* C1: within one uninterrupted run of fist frames paused flips at most
\* once, however long the fist is held, and after a frame with a non-fist
\* vector rest_since is unset.
C1_OneFlipPerHold ==
    /\ runFlips <= 1
    /\ (inp.hand /\ ~IsFist(inp.fingers)) => rest_since = None

\* C2: after every frame that is not a fist frame (a non-fist vector or no
\* hand) rest_since is unset, and paused only flips when every frame since
\* rest_since was set was a fist frame.
C2_NoCreditAcrossInterruption ==
    /\ (frames > 0 /\ ~FistFrame) => rest_since = None
    /\ flipped => fistOnly

\* C3: paused starts FALSE and changes only in a fist frame that finds
\* rest_since set at least rest_toggle_hold_sec before the frame's clock.
C3_FlipOnlyOnHeldFist ==
    /\ paused = FALSE
    /\ [][paused' # paused =>
            /\ inp'.hand
            /\ inp'.fingers = Fist
            /\ rest_since # None
            /\ inp'.tRest - rest_since[1] >= rest_toggle_hold_sec]_vars

C3_Witness == flipped /\ paused /\ FistFrame

\* C4: a frame that is paused when line 122 is reached calls nothing and
\* leaves timers, trail and pointer state alone; the fist check runs in
\* paused hand frames too, so a fist held for the hold time resumes.
C4_PausedFrameInert ==
    [][/\ (frames' = frames + 1 /\ paused') =>
            /\ cmds' = <<>>
            /\ UNCHANGED <<last_click_time, last_action_time, trail,
                           plocX, plocY>>
       /\ (paused /\ frames' = frames + 1 /\ inp'.hand /\ inp'.fingers = Fist) =>
            IF rest_since = None
            THEN paused' /\ rest_since' = <<inp'.tRest>>
            ELSE IF inp'.tRest - rest_since[1] >= rest_toggle_hold_sec
                 THEN ~paused' /\ rest_since' = None
                 ELSE paused' /\ rest_since' = rest_since]_vars

C4_Witness ==
    /\ paused /\ inp.hand /\ inp.fingers = IndexOnly
    /\ cmds = <<>>
    /\ Len(trail) > 0

\* ------------------------------------------------------------------------
\* Debounce
\* ------------------------------------------------------------------------
FrameStep == frames' = frames + 1

\* the calls of cs with op in ops are at least minInterval after prev (the
\* last such call of earlier frames) and after one another
Spaced(cs, ops, minInterval, prev) ==
    \A k \in Calls(cs, ops) :
        /\ prev # None => cs[k].at - prev[1] >= minInterval
        /\ \A j \in Calls(cs, ops) : j < k => cs[k].at - cs[j].at >= minInterval

\* C5: two click, two swipe and two scroll calls are never less than 0.12 s,
\* 0.7 s and 0.2 s apart, whatever the frames.
C5_DebounceSpacing ==
    [][FrameStep =>
        /\ Spaced(cmds', ClickOps, click_debounce_sec, fired.click)
        /\ Spaced(cmds', {"hotkey"}, cooldown_swipe_sec, fired.swipe)
        /\ Spaced(cmds', {"scroll"}, scroll_cooldown_sec, fired.scroll)]_vars

\* a left-click pinch inside the window of the last click: nothing is called
C5_Witness ==
    /\ inp.hand /\ ~paused /\ inp.fingers = IndexMiddle
    /\ inp.length < left_click_threshold
    /\ fired.click # None
    /\ inp.tClick - fired.click[1] = 6
    /\ cmds = <<>>

\* the test a frame applies: elapsed >= minInterval or elapsed > minInterval
Allow(now, last, minInterval, strict) ==
    IF strict THEN now - last > minInterval ELSE now - last >= minInterval

\* the calls of cs before index k all returned
ReturnedBefore(cs, k) == \A j \in 1..(k - 1) : cs[j].op = "move" \/ cs[j].ok

Has(cs, ops) == Calls(cs, ops) # {}

\* the timer a test of this frame reads: the time of the frame's earlier
\* call of the category if it returned, else the value the frame started with
TimerAt(cs, ops, start) ==
    IF \E k \in Calls(cs, ops) : cs[k].ok
    THEN cs[Max({k \in Calls(cs, ops) : cs[k].ok})].at
    ELSE start

\* For every debounce test a frame reaches whose gesture qualifies, the call
\* is made iff Allow holds of the frame's clock and the category's timer, and
\* a call that returns leaves the timer at the clock it was tested with.
DebounceLaw(strict) ==
    (FrameStep /\ inp'.hand /\ ~paused') =>
    LET i == inp'
        cs == cmds'
        leftQ == ReadsLength(i.fingers) /\ i.length < left_click_threshold
        dblQ == ReadsLength(i.fingers) /\ i.length > double_click_threshold
        rightQ == /\ ReadsLengthTI(i.fingers)
                  /\ i.lengthTI < right_click_threshold
                  /\ \A k \in Calls(cs, {"click", "doubleClick"}) : cs[k].ok
        dynQ == disp' # None
        swipeQ == /\ dynQ /\ i.fingers = AllFive
                  /\ 2 * Abs(disp'[2]) < swipe_threshold_px
                  /\ Abs(disp'[1]) >= swipe_threshold_px
        scrollQ == /\ dynQ
                   /\ i.fingers = AllFive
                        \/ (i.fingers[2] = 1 /\ SumFingers(i.fingers) <= 2)
                   /\ Abs(disp'[2]) >= scroll_threshold_px
                   /\ \A k \in Calls(cs, {"hotkey"}) : cs[k].ok
    IN  /\ leftQ => (Has(cs, {"click"}) <=>
                Allow(i.tClick, last_click_time, click_debounce_sec, strict))
        /\ dblQ => (Has(cs, {"doubleClick"}) <=>
                Allow(i.tClick, last_click_time, click_debounce_sec, strict))
        /\ rightQ => (Has(cs, {"rightClick"}) <=>
                Allow(i.tRight,
                      TimerAt(cs, {"click", "doubleClick"}, last_click_time),
                      click_debounce_sec, strict))
        /\ swipeQ => (Has(cs, {"hotkey"}) <=>
                Allow(i.tDyn, last_action_time, cooldown_swipe_sec, strict))
        /\ scrollQ => (Has(cs, {"scroll"}) <=>
                Allow(i.tDyn, TimerAt(cs, {"hotkey"}, last_action_time),
                      scroll_cooldown_sec, strict))
        /\ last_click_time' = TimerAt(cs, ClickOps, last_click_time)
        /\ last_action_time' =
                TimerAt(cs, {"hotkey", "scroll"}, last_action_time)

\* C6 as stated: the debounce test is inclusive, a gesture exactly
\* minInterval after the last trigger of its category fires.
C6_InclusiveDebounce == [][DebounceLaw(FALSE)]_vars

\* C6 as amended: the debounce test is strict (elapsed > minInterval); a
\* call that returns sets the category's timer to the clock it was tested
\* with.
C6_StrictDebounce == [][DebounceLaw(TRUE)]_vars

\* a swipe exactly 0.7 s after the last one: not called
C6_Witness ==
    /\ inp.hand /\ ~paused /\ inp.fingers = AllFive
    /\ disp # None /\ IsSwipeLeft(disp[1], disp[2])
    /\ fired.swipe # None
    /\ inp.tDyn - fired.swipe[1] = cooldown_swipe_sec
    /\ ~Has(cmds, {"hotkey"})

\* ------------------------------------------------------------------------
\* Dispatch failures
\* ------------------------------------------------------------------------
\* C7: a call the backend rejects never ends the loop: whatever is
\* rejected, the loop goes on to the next frame.
C7_RejectionSwallowed ==
    (\E k \in 1..Len(cmds) : ~cmds[k].ok) => pc # "crashed"

\* ------------------------------------------------------------------------
\* Classification
\* ------------------------------------------------------------------------
Count(cs, ops) == Cardinality(Calls(cs, ops))

\* C8: in an active frame with index and middle up, d1 < 35 with the click
\* debounce allowing calls click once, d1 > 60 with the debounce allowing
\* calls doubleClick once, 35 < d1 < 60 calls neither, and no frame calls
\* both.
C8_ClickThresholds ==
    [][(FrameStep /\ inp'.hand /\ ~paused' /\ ReadsLength(inp'.fingers)) =>
        LET d1 == inp'.length
            allowed == Debounced(inp'.tClick, last_click_time,
                                 click_debounce_sec)
            nClick == Count(cmds', {"click"})
            nDouble == Count(cmds', {"doubleClick"})
        IN  /\ (d1 < 35 /\ allowed) => (nClick = 1 /\ nDouble = 0)
            /\ (d1 > 60 /\ allowed) => (nDouble = 1 /\ nClick = 0)
            /\ (35 < d1 /\ d1 < 60) => (nClick = 0 /\ nDouble = 0)
            /\ nClick + nDouble <= 1]_vars

\* a dead-zone distance with thumb, index and middle up and the debounce
\* allowing
C8_Witness ==
    /\ inp.hand /\ ~paused /\ inp.fingers = ThumbIndexMiddle
    /\ inp.length = 36
    /\ inp.tClick - last_click_time > click_debounce_sec
    /\ ~Has(cmds, {"click", "doubleClick"})
    /\ fired.click # None

IsCtrl(c, key) == c.op = "hotkey" /\ c.arg = <<"ctrl", key>>
NCtrl(cs, key) == Cardinality({k \in 1..Len(cs) : IsCtrl(cs[k], key)})

\* the frame computed a displacement of a left (sign = -1) or right swipe
SwipeFrame(sign) ==
    /\ inp.hand /\ ~paused /\ inp.fingers = AllFive
    /\ disp # None
    /\ sign * disp[1] >= swipe_threshold_px
    /\ 2 * Abs(disp[2]) < swipe_threshold_px

\* C9 as stated: an active all-five frame with dx <= -120 and |dy| < 60
\* always calls hotkey ctrl+a exactly once and neither ctrl+c nor scroll;
\* with dx >= 120 it calls ctrl+c and neither ctrl+a nor scroll.
C9_AlwaysSwipe ==
    /\ SwipeFrame(-1) =>
        NCtrl(cmds, "a") = 1 /\ NCtrl(cmds, "c") = 0 /\ ~Has(cmds, {"scroll"})
    /\ SwipeFrame(1) =>
        NCtrl(cmds, "c") = 1 /\ NCtrl(cmds, "a") = 0 /\ ~Has(cmds, {"scroll"})

\* C9 as amended: such a frame calls ctrl+a (ctrl+c) exactly once when the
\* swipe debounce allows (now - last_action_time > 0.7 s) and not at all
\* when it does not, and never the opposite hotkey or a scroll.
C9_SwipeWhenAllowed ==
    [][FrameStep =>
        LET allowed == inp'.tDyn - last_action_time > cooldown_swipe_sec
            n == IF allowed THEN 1 ELSE 0
        IN  /\ SwipeFrame(-1)' =>
                /\ NCtrl(cmds', "a") = n /\ NCtrl(cmds', "c") = 0
                /\ ~Has(cmds', {"scroll"})
            /\ SwipeFrame(1)' =>
                /\ NCtrl(cmds', "c") = n /\ NCtrl(cmds', "a") = 0
                /\ ~Has(cmds', {"scroll"})]_vars

\* a left swipe at the edge of both tests, called
C9_Witness ==
    /\ SwipeFrame(-1)
    /\ disp = <<-120, 59>>
    /\ NCtrl(cmds, "a") = 1
    /\ fired.swipe = <<inp.tDyn>>

\* ------------------------------------------------------------------------
\* Trail
\* ------------------------------------------------------------------------
\* C10: trail never holds more than 5 entries; it is the last min(n, 5) of
\* the n samples appended so far, in order (so it is never cleared); the
\* displacement a frame computes is newest minus oldest retained, and is
\* computed only with at least 2 samples held.
C10_TrailWindow ==
    LET n == Len(pushed)
        k == IF n < 5 THEN n ELSE 5
    IN  /\ Len(trail) <= 5
        /\ trail = SubSeq(pushed, n - k + 1, n)
        /\ disp # None =>
            /\ k >= 2
            /\ disp = <<pushed[n][1] - pushed[n - k + 1][1],
                        pushed[n][2] - pushed[n - k + 1][2]>>

\* six samples appended in seven frames (one appended nothing), the first
\* evicted; the displacement is taken from the second sample
C10_Witness ==
    /\ Len(pushed) = 6
    /\ disp # None
    /\ pushed[1][1] # pushed[2][1]
    /\ frames = 7
    /\ disp[1] = pushed[6][1] - pushed[2][1]
    /\ disp[1] # pushed[6][1] - pushed[1][1]

\* ------------------------------------------------------------------------
\* The pointer
\* ------------------------------------------------------------------------
OnScreen(xy) ==
    /\ RLe(FromInt(0), xy[1]) /\ RLe(xy[1], FromInt(wScr - 1))
    /\ RLe(FromInt(0), xy[2]) /\ RLe(xy[2], FromInt(hScr - 1))

InRectangle(x, y) ==
    /\ frameR <= x /\ x <= wCam - frameR
    /\ frameR <= y /\ y <= hCam - frameR

\* C11: wherever the index tip is, inside or outside the active rectangle,
\* and whatever the pointer state was, the coordinates handed to the OS move
\* command satisfy 0 <= x <= wScr - 1 and 0 <= y <= hScr - 1.
C11_MoveOnScreen ==
    \A k \in Calls(cmds, {"move"}) : OnScreen(cmds[k].arg)

\* a tip left of the rectangle moved a pointer that was at the origin: the
\* mirrored x would be wScr, and wScr - 1 was handed over
C11_Witness ==
    /\ frames > 1
    /\ ~InRectangle(inp.x1, inp.y1)
    /\ \E k \in Calls(cmds, {"move"}) : cmds[k].arg[1] = FromInt(wScr - 1)

\* ------------------------------------------------------------------------
\* Scenario: pinch, pinch again 0.05 s later
\* ------------------------------------------------------------------------
Ops(cs) == [k \in 1..Len(cs) |-> cs[k].op]

PinchFrame(i) ==
    i.hand /\ i.fingers = IndexMiddle /\ i.length < left_click_threshold

\* C12: from the initial session state, two consecutive active frames with
\* the vector [0,1,1,0,0] and an index-middle distance below 35, the second
\* 0.05 s after the first, produce exactly one LeftClick: the first frame
\* clicks, the second calls nothing and leaves the click timer at the time
\* of the first.
C12_SecondPinchSuppressed ==
    [][(/\ frames = 1
        /\ PinchFrame(inp)
        /\ FrameStep
        /\ PinchFrame(inp')
        /\ inp'.tClick = inp.tClick + 5)
       => (/\ Ops(cmds) = <<"click">>
           /\ last_click_time = inp.tClick
           /\ cmds' = <<>>
           /\ last_click_time' = last_click_time)]_vars

\* the second pinch of the scenario has been read
C12_Witness ==
    /\ frames = 2
    /\ ~paused
    /\ PinchFrame(inp)
    /\ cmds = <<>>
    /\ fired.click = <<inp.tClick - 5>>
    /\ last_click_time = inp.tClick - 5

\* ------------------------------------------------------------------------
\* The dispatcher
\* ------------------------------------------------------------------------
\* the place of a call in the order Move, LeftClick or DoubleClick,
\* RightClick, SwipeLeft or SwipeRight, ScrollUp or ScrollDown
Rank(op) ==
    CASE op = "move" -> 1
      [] op \in {"click", "doubleClick"} -> 2
      [] op = "rightClick" -> 3
      [] op = "hotkey" -> 4
      [] op = "scroll" -> 5

InOrder(cs) ==
    \A j, k \in 1..Len(cs) : j < k => Rank(cs[j].op) < Rank(cs[k].op)

Min(S) == CHOOSE m \in S : \A k \in S : m <= k

\* what is left of the calls e when a call that raises ends the frame
UpToRaise(e, rej) ==
    LET bad == {k \in 1..Len(e) : e[k] \in rej \ {"move"}}
    IN  IF bad = {} THEN e ELSE SubSeq(e, 1, Min(bad))

\* the calls of an active frame that reads i, from the timers before the
\* frame and the displacement d its trail gives (None below two samples)
Dispatch(i, lct, lat, d) ==
    LET mv == IF i.fingers[2] = 1 /\ SumFingers(i.fingers) = 1
              THEN <<"move">> ELSE <<>>
        lc == IF ReadsLength(i.fingers) /\ i.tClick - lct > click_debounce_sec
              THEN IF i.length < left_click_threshold THEN <<"click">>
                   ELSE IF i.length > double_click_threshold
                        THEN <<"doubleClick">> ELSE <<>>
              ELSE <<>>
        lct1 == IF lc = <<>> THEN lct ELSE i.tClick
        rc == IF /\ ReadsLengthTI(i.fingers)
                 /\ i.lengthTI < right_click_threshold
                 /\ i.tRight - lct1 > click_debounce_sec
              THEN <<"rightClick">> ELSE <<>>
        sw == IF /\ d # None
                 /\ i.fingers = AllFive
                 /\ i.tDyn - lat > cooldown_swipe_sec
                 /\ Abs(d[1]) >= swipe_threshold_px
                 /\ 2 * Abs(d[2]) < swipe_threshold_px
              THEN <<"hotkey">> ELSE <<>>
        lat1 == IF sw = <<>> THEN lat ELSE i.tDyn
        sc == IF /\ d # None
                 /\ \/ i.fingers = AllFive
                    \/ i.fingers[2] = 1 /\ SumFingers(i.fingers) <= 2
                 /\ i.tDyn - lat1 > scroll_cooldown_sec
                 /\ Abs(d[2]) >= scroll_threshold_px
              THEN <<"scroll">> ELSE <<>>
    IN  mv \o lc \o rc \o sw \o sc

\* the displacement between the oldest sample of the window and <<x, y>>,
\* the sample the frame adds
Displacement(tr, x, y) ==
    IF tr = <<>> THEN None
    ELSE LET old == IF Len(tr) = trail_maxlen THEN tr[2] ELSE tr[1]
         IN  <<x - old[1], y - old[2]>>

\* C13: the calls of one frame come in the fixed order Move, LeftClick or
\* DoubleClick, RightClick, SwipeLeft or SwipeRight, ScrollUp or ScrollDown,
\* one call per event, and the sequence is a function of what the frame
\* reads and of the session state before it (timers, trail), cut short only
\* by a call that raises.
C13_DispatchOrder ==
    [][(FrameStep /\ inp'.hand /\ ~paused')
       => (/\ InOrder(cmds')
           /\ Ops(cmds') =
                UpToRaise(Dispatch(inp', last_click_time, last_action_time,
                                   Displacement(trail, inp'.x1, inp'.y1)),
                          inp'.rej))]_vars

\* one frame clicked, right-clicked and swiped, in this order
C13_Witness ==
    /\ inp.hand
    /\ Ops(cmds) = <<"click", "rightClick", "hotkey">>

\* ------------------------------------------------------------------------
\* The pointer mapper
\* ------------------------------------------------------------------------
\* one smoothing step from p towards target: p + (target - p) / smoothening
Smoothed(p, target) ==
    <<((smoothening - 1) * p[1] * target[2] + target[1] * p[2]),
      smoothening * p[2] * target[2]>>

REq(p, q) == p[1] * q[2] = q[1] * p[2]

\* what line 130 hands to the backend for the smoothed point <<cx, cy>>
Mirrored(cx, cy) ==
    LET mx == RSub(FromInt(wScr), cx)
    IN  <<IF RLe(mx, FromInt(wScr - 1)) THEN mx ELSE FromInt(wScr - 1),
          IF RLe(cy, FromInt(hScr - 1)) THEN cy ELSE FromInt(hScr - 1)>>

\* C14: Move fires on an active frame exactly when the index is the only
\* extended finger.  On a move frame (plocX, plocY) becomes the point
\* smoothed from the old (plocX, plocY) towards the frame's target, which is
\* also the point the one move command is computed from; on every other
\* frame (no hand, paused, another vector) the pointer state is unchanged
\* and no move is called.
C14_MoveFrame ==
    [][FrameStep =>
       IF inp'.hand /\ ~paused' /\ inp'.fingers = IndexOnly
       THEN LET x3 == Interp(inp'.x1, frameR, wCam - frameR, wScr)
                y3 == Interp(inp'.y1, frameR, hCam - frameR, hScr)
            IN  /\ REq(plocX', Smoothed(plocX, x3))
                /\ REq(plocY', Smoothed(plocY, y3))
                /\ Count(cmds', {"move"}) = 1
                /\ cmds'[1].op = "move"
                /\ cmds'[1].arg = Mirrored(plocX', plocY')
       ELSE /\ plocX' = plocX
            /\ plocY' = plocY
            /\ ~Has(cmds', {"move"})]_vars

\* a move frame that started away from the origin and did not reach its
\* target
C14_Witness ==
    /\ inp.hand /\ ~paused /\ inp.fingers = IndexOnly
    /\ Ops(cmds) = <<"move">>
    /\ frames > 1
    /\ ~REq(plocX, Interp(inp.x1, frameR, wCam - frameR, wScr))
    /\ RLe(FromInt(1), plocX)
    /\ RLe(FromInt(1), plocY)

\* ------------------------------------------------------------------------
\* The timers
\* ------------------------------------------------------------------------
ActionOps == {"hotkey", "scroll"}

\* a timer going from old to new in a step whose frame made the calls cs
TimerStep(old, new, cs, ops) ==
    /\ old <= new
    /\ new # old =>
          /\ Has(cs, ops)
          /\ new = cs[Max(Calls(cs, ops))].at
          /\ cs[Max(Calls(cs, ops))].ok

\* C15: last_click_time and last_action_time never decrease; each changes
\* only in a frame where an event of its category fires (a click, double
\* click or right click; a swipe or scroll) and is then the time that frame
\* read for the event.
C15_TimersMonotone ==
    [][/\ TimerStep(last_click_time, last_click_time', cmds', ClickOps)
       /\ TimerStep(last_action_time, last_action_time', cmds', ActionOps)
       /\ last_click_time' \in {last_click_time, inp'.tClick, inp'.tRight}
       /\ last_action_time' \in {last_action_time, inp'.tDyn}]_vars

\* the clock was set back after a click and a scroll: the frame read a time
\* before both timers and left them alone
C15_Witness ==
    /\ inp.hand /\ ~paused
    /\ inp.tDyn < last_click_time
    /\ inp.tDyn < last_action_time
    /\ last_click_time > 0
    /\ last_action_time > 0

\* ------------------------------------------------------------------------
\* Frames without a hand
\* ------------------------------------------------------------------------
\* C16: a frame in which no hand is detected calls nothing on the backend
\* and leaves the timers, the trail, the pointer state and paused as they
\* were.
C16_NoHandInert ==
    [][(FrameStep /\ ~inp'.hand)
       => (/\ cmds' = <<>>
           /\ UNCHANGED <<last_click_time, last_action_time, trail,
                          plocX, plocY, paused>>)]_vars

\* a frame without a hand after the trail and a timer were written
C16_Witness ==
    /\ ~inp.hand
    /\ frames > 2
    /\ Len(trail) >= 2
    /\ last_action_time > 0
    /\ cmds = <<>>

\* ------------------------------------------------------------------------
\* Scenario: the index alone gliding for ten frames
\* ------------------------------------------------------------------------
RLt(p, q) ==
    LET L == Lcm(p[2], q[2])
    IN  p[1] * (L \div p[2]) < q[1] * (L \div q[2])

\* C17: with the vector [0,1,0,0,0] on ten active frames and the index tip
\* going straight from (150, 150) to (160, 155), the pointer starting at
\* (0, 0), every frame calls move exactly once and nothing else; the
\* smoothed coordinate grows from frame to frame and lands between the
\* previous smoothed value and the frame's target, never beyond the target;
\* the x handed to the backend is wScr minus the smoothed x, the y is the
\* smoothed y.
C17_GlideSmoothing ==
    [][(FrameStep /\ inp'.hand)
       => LET x3 == Interp(inp'.x1, frameR, wCam - frameR, wScr)
              y3 == Interp(inp'.y1, frameR, hCam - frameR, hScr)
          IN  /\ Ops(cmds') = <<"move">>
              /\ RLt(plocX, plocX') /\ RLe(plocX', x3)
              /\ RLt(plocY, plocY') /\ RLe(plocY', y3)
              /\ cmds'[1].arg = <<RSub(FromInt(wScr), plocX'), plocY'>>]_vars

\* the tenth of ten consecutive frames with a hand, the tip at (160, 155)
C17_Witness ==
    /\ frames = 10
    /\ Len(pushed) = 10
    /\ pushed[1][1] = 150 /\ pushed[1][2] = 150
    /\ inp.hand /\ inp.x1 = 160 /\ inp.y1 = 155
    /\ Ops(cmds) = <<"move">>
    /\ RLt(FromInt(0), plocX) /\ RLt(plocX, FromInt(wScr))

\* ------------------------------------------------------------------------
\* Swipe and scroll on one timer
\* ------------------------------------------------------------------------
NoSwipeWithScroll == ~(Has(cmds', {"hotkey"}) /\ Has(cmds', {"scroll"}))

\* every swipe or scroll of the frame comes at least the window of the
\* last swipe (0.7 s) after it and at least the window of the last scroll
\* (0.2 s) after it
OutsideWindows ==
    \A k \in Calls(cmds', ActionOps) :
        /\ fired.swipe # None =>
              cmds'[k].at - fired.swipe[1] >= cooldown_swipe_sec
        /\ fired.scroll # None =>
              cmds'[k].at - fired.scroll[1] >= scroll_cooldown_sec

\* C18 as claimed: no frame fires both a swipe and a scroll, and after a
\* swipe or scroll fired at time t no swipe or scroll of either kind fires
\* before the window that event started at t (0.7 s after a swipe, 0.2 s
\* after a scroll) has elapsed.
C18_OneWindow ==
    [][FrameStep => (NoSwipeWithScroll /\ OutsideWindows)]_vars

\* every swipe of the frame comes more than 0.7 s and every scroll more
\* than 0.2 s after the last swipe or scroll, whichever that was
OutsideOwnInterval ==
    /\ \A k \in Calls(cmds', {"hotkey"}) :
          /\ cmds'[k].at - last_action_time > cooldown_swipe_sec
          /\ \A e \in {fired.swipe, fired.scroll} :
                e # None => cmds'[k].at - e[1] > cooldown_swipe_sec
    /\ \A k \in Calls(cmds', {"scroll"}) :
          /\ cmds'[k].at - last_action_time > scroll_cooldown_sec
          /\ \A e \in {fired.swipe, fired.scroll} :
                e # None => cmds'[k].at - e[1] > scroll_cooldown_sec

\* C18 (amended): no frame fires both a swipe and a scroll, and after a
\* swipe or scroll fired at time t the next swipe fires only more than
\* 0.7 s after t and the next scroll only more than 0.2 s after t: the
\* interval is that of the gesture attempted, not of the one that fired.
C18_SharedTimer ==
    [][FrameStep => (NoSwipeWithScroll /\ OutsideOwnInterval)]_vars

\* a scroll 0.21 s after a swipe, inside the 0.7 s of the swipe
C18_Witness ==
    /\ Has(cmds, {"scroll"})
    /\ fired.swipe # None
    /\ inp.tDyn - fired.swipe[1] = scroll_cooldown_sec + 1

\* ------------------------------------------------------------------------
\* Scroll
\* ------------------------------------------------------------------------
\* the arguments of the scroll calls of cs, in call order
ScrollArgs(cs) ==
    IF ~Has(cs, {"scroll"}) THEN <<>>
    ELSE [k \in 1..Count(cs, {"scroll"}) |->
            cs[CHOOSE j \in Calls(cs, {"scroll"}) :
                 Cardinality({h \in Calls(cs, {"scroll"}) : h <= j}) = k].arg]

\* C19: on an active frame that gets to the trail, scroll is called exactly
\* when the vector is all five fingers or the index with at most one other
\* finger, more than 0.2 s have passed since the last swipe or scroll, the
\* trail (with the sample of this frame) holds two samples or more and
\* |dy| >= 80: scroll(60) for dy <= -80, scroll(-60) for dy >= 80, never
\* both.  The test does not look at Move: a frame with the index alone up
\* calls move and scroll.  No other frame scrolls.
C19_ScrollWhen ==
    [][FrameStep =>
       LET i == inp'
           d == Displacement(trail, i.x1, i.y1)
           can == /\ \/ i.fingers = AllFive
                     \/ i.fingers[2] = 1 /\ SumFingers(i.fingers) - 1 <= 1
                  /\ i.tDyn - last_action_time > scroll_cooldown_sec
                  /\ d # None
       IN  IF i.hand /\ ~paused' /\ pushed' # pushed
           THEN ScrollArgs(cmds') =
                  IF can /\ d[2] <= -scroll_threshold_px
                  THEN <<scroll_amount>>
                  ELSE IF can /\ d[2] >= scroll_threshold_px
                       THEN <<-scroll_amount>>
                       ELSE <<>>
           ELSE ~Has(cmds', {"scroll"})]_vars

\* the index alone went down 80 px: one frame moved and scrolled
C19_Witness ==
    /\ inp.fingers = IndexOnly
    /\ Ops(cmds) = <<"move", "scroll">>
    /\ cmds[2].arg = -scroll_amount
    /\ disp # None
    /\ disp[2] = scroll_threshold_px

\* ------------------------------------------------------------------------
\* Left and right click in one frame
\* ------------------------------------------------------------------------
LeftOps == {"click", "doubleClick"}

\* RightClick fires only with thumb and index up, d2 < 30 and more than
\* 0.12 s between the timer lct and the time the right-click test reads
RightClickOnlyWhen(lct) ==
    Has(cmds', {"rightClick"}) =>
        /\ inp'.hand /\ ~paused'
        /\ inp'.fingers[1] = 1 /\ inp'.fingers[2] = 1
        /\ inp'.lengthTI < right_click_threshold
        /\ inp'.tRight - lct > click_debounce_sec

\* C20 as claimed: at most one click-category call per frame; when a frame
\* with index and middle up fires its LeftClick or DoubleClick and also has
\* thumb and index up at d2 < 30, the RightClick of that frame does not
\* fire; RightClick fires only with thumb and index up, d2 < 30 and the
\* click debounce allowing.
C20_OneClickPerFrame ==
    [][FrameStep =>
       /\ Count(cmds', ClickOps) <= 1
       /\ (/\ Has(cmds', LeftOps)
           /\ ReadsLengthTI(inp'.fingers)
           /\ inp'.lengthTI < right_click_threshold)
          => ~Has(cmds', {"rightClick"})
       /\ RightClickOnlyWhen(last_click_time)]_vars

\* C20 (amended): a frame fires at most one of LeftClick and DoubleClick
\* and at most one RightClick.  When it fires LeftClick or DoubleClick, its
\* RightClick fires only if more than 0.12 s pass between the time read for
\* the click (line 136) and the time read for the right click (line 149),
\* so at most one click-category event fires when the clock goes on 0.12 s
\* or less between the two.  When its LeftClick or DoubleClick does not
\* fire (d1 in the dead zone, or debounced), the RightClick is tested
\* against the timer as the earlier frames left it, and fires when the
\* frame gets to the test, thumb and index are up, d2 < 30 and the debounce
\* allows; it fires in no other case.
C20_ClickPair ==
    [][FrameStep =>
       LET left == Has(cmds', LeftOps)
           lct == IF left /\ cmds'[Max(Calls(cmds', LeftOps))].ok
                  THEN inp'.tClick ELSE last_click_time
           raised == \E k \in Calls(cmds', LeftOps) : ~cmds'[k].ok
       IN  /\ Count(cmds', LeftOps) <= 1
           /\ Count(cmds', {"rightClick"}) <= 1
           /\ (left /\ Has(cmds', {"rightClick"}))
                 => inp'.tRight - inp'.tClick > click_debounce_sec
           /\ inp'.tRight - inp'.tClick <= click_debounce_sec
                 => Count(cmds', ClickOps) <= 1
           /\ RightClickOnlyWhen(lct)
           /\ (/\ inp'.hand /\ ~paused' /\ ~raised
               /\ ReadsLengthTI(inp'.fingers)
               /\ inp'.lengthTI < right_click_threshold
               /\ inp'.tRight - lct > click_debounce_sec)
              => Has(cmds', {"rightClick"})]_vars

\* one frame clicked and, 0.13 s on, right-clicked
C20_Witness ==
    /\ Ops(cmds) = <<"click", "rightClick">>
    /\ inp.tRight - inp.tClick = click_debounce_sec + 1
    /\ last_click_time = inp.tRight
====
